---------------------------- MODULE Spec2Model ----------------------------
(***************************************************************************)
(* A model of the vidgenai render pipeline (backend/app):                  *)
(*   - pipelines/subtitles.py : the Subtitle Timing Engine and the         *)
(*     Caption Builder (pure functions, specifications SpecTiming and      *)
(*     SpecCaptions);                                                      *)
(*   - services/job_service.py, services/memory_store.py,                  *)
(*     pipelines/render.py, pipelines/video.py, pipelines/template.py :    *)
(*     the job service, the store and the render orchestrator with its     *)
(*     stages (specification Spec).                                        *)
(*                                                                         *)
(* Time is counted in centiseconds (cs).  The Proportional Estimator       *)
(* multiplies a duration by the fraction wt/total; it is computed here in  *)
(* exact arithmetic by carrying the denominator total as the "scale" of    *)
(* the result: a time x of a result with scale s stands for x/s cs.        *)
(***************************************************************************)
EXTENDS Integers, Sequences, FiniteSets, TLC

VARIABLES
    projects,   \* MemoryStore._projects : project id -> project document
    jobs,       \* MemoryStore._jobs     : sequence of job documents (job id = index)
    pc,         \* position of each job's worker thread (_run_job / render_project_video)
    ctx,        \* per job: the render state dict and the files of its workdir
    outputs,    \* the output location .../projects/<id>/outputs of each project
    timing,     \* SpecTiming: last call of the Subtitle Timing Engine (input and result)
    captions,   \* SpecCaptions: last call of the Caption Builder (input and events)
    stitcher,   \* SpecStitcher: last call of the Timeline Stitcher (input and plan)
    jobstore,   \* SpecJobStore: the clock of now_iso and the jobs' creation records
    timeline    \* SpecTimeline: one render's narration files, audio track and captions

vars == <<projects, jobs, pc, ctx, outputs, timing, captions, stitcher, jobstore, timeline>>

renderVars == <<projects, jobs, pc, ctx, outputs>>

(***************************************************************************)
(* Bounds of the model.                                                    *)
(***************************************************************************)
MaxTokens == 3      \* tokens of an expected text
MaxScenes == 3      \* scenes handed to the Caption Builder
MaxJobs == 2        \* generate-video requests
MaxProjScenes == 2  \* scenes of the project being rendered
MaxClips == 3       \* scene clips handed to the Timeline Stitcher
MaxStoreJobs == 3   \* jobs created in the job store
MaxClock == 2       \* seconds the clock of now_iso advances

Max(a, b) == IF a >= b THEN a ELSE b

Min(a, b) == IF a <= b THEN a ELSE b

RECURSIVE SumSeq(_)
SumSeq(s) == IF s = <<>> THEN 0 ELSE Head(s) + SumSeq(Tail(s))

(***************************************************************************)
(*                    pipelines/subtitles.py : timing                      *)
(***************************************************************************)

\* A language hint is a code with a base language, an optional region suffix
\* ("hi-IN") and a letter case ("HI").  The base "" is the missing hint: None
\* and the empty string are both falsy and are treated alike by the code.
NoLang == [base |-> "", region |-> "", upper |-> FALSE]

LangBases == {"en", "hi"}

LangHints ==
    {NoLang} \cup [base : LangBases, region : {"", "IN"}, upper : BOOLEAN]

\* normalize_whisper_lang: None for a missing hint, else the hint lower-cased,
\* stripped and cut before its first "-".
normalize_whisper_lang(code) ==
    IF code.base = "" THEN NoLang
    ELSE [base |-> code.base, region |-> "", upper |-> FALSE]

REGIONAL_LANG_PREFIXES ==
    {[base |-> b, region |-> "", upper |-> FALSE] :
        b \in {"hi", "mr", "bn", "ta", "te", "gu", "kn", "ml", "or", "pa", "ur", "as"}}

\* The whitespace-separated tokens an expected text is made of: plain words,
\* a word with trailing punctuation, a bracketed tone marker, punctuation only.
Vocabulary == {"a", "go,", "[t]", "--"}

\* _clean_voiceover_text: bracketed markers are removed from the text.
_clean_voiceover_text(text) ==
    SelectSeq(text, LAMBDA tok : tok # "[t]")

\* tok.strip(<punctuation>) of _tokenize, on the vocabulary.
StripPunct(tok) ==
    CASE tok = "go," -> "go"
      [] tok = "--" -> ""
      [] OTHER -> tok

RECURSIVE MapStrip(_)
MapStrip(toks) ==
    IF toks = <<>> THEN <<>>
    ELSE <<StripPunct(Head(toks))>> \o MapStrip(Tail(toks))

\* _tokenize: split, strip punctuation, drop what is left empty.
_tokenize(text) ==
    SelectSeq(MapStrip(text), LAMBDA w : w # "")

\* len(w) on the words of the vocabulary.
WordLen(w) ==
    CASE w = "a" -> 1
      [] w = "go" -> 2
      [] OTHER -> 0

MIN_D == 6

RECURSIVE Weights(_)
Weights(words) ==
    IF words = <<>> THEN <<>>
    ELSE <<Max(1, WordLen(Head(words)))>> \o Weights(Tail(words))

\* The end of one word of _approx_segments, in units of 1/total cs:
\* d = max(MIN_D, dur*wt/total); end = min(dur, start+d);
\* if end <= start: end = min(dur, start+MIN_D).
SegEnd(start, wt, total, dur) ==
    LET d == Max(MIN_D * total, dur * wt)
        end == Min(dur * total, start + d)
    IN  IF end <= start THEN Min(dur * total, start + MIN_D * total) ELSE end

RECURSIVE ApproxLoop(_, _, _, _, _)
ApproxLoop(words, weights, total, dur, t) ==
    IF words = <<>> THEN <<>>
    ELSE LET end == SegEnd(t, Head(weights), total, dur)
         IN  <<[word |-> Head(words), start |-> t, end |-> end]>>
             \o ApproxLoop(Tail(words), Tail(weights), total, dur, end)

\* segs[-1]["end"] = max(segs[-1]["end"], audio_duration)
ClampLast(segs, total, dur) ==
    [segs EXCEPT ![Len(segs)].end = Max(segs[Len(segs)].end, dur * total)]

\* _approx_segments(expected_text, audio_duration): the Proportional
\* Estimator.  The result is [scale, segs]; a time x stands for x/scale cs.
\* A missing duration (None) and 0 are both falsy: both are the duration 0.
_approx_segments(expected_text, audio_duration) ==
    LET words == _tokenize(_clean_voiceover_text(expected_text))
        weights == Weights(words)
        total == SumSeq(weights)
    IN  IF words = <<>> \/ audio_duration <= 0
        THEN [scale |-> 1, segs |-> <<>>]
        ELSE [scale |-> total,
              segs |-> ClampLast(ApproxLoop(words, weights, total, audio_duration, 0),
                                 total, audio_duration)]

\* What model.transcribe can do: raise, or return word timestamps (in cs) that
\* depend on the audio alone, not on the expected text or duration.
ProviderWords ==
    { <<>>,
      <<[word |-> "x", start |-> 0, end |-> 50]>>,
      <<[word |-> "x", start |-> 0, end |-> 40], [word |-> "y", start |-> 40, end |-> 100]>>,
      <<[word |-> "x", start |-> 0, end |-> 30], [word |-> "y", start |-> 30, end |-> 60],
        [word |-> "z", start |-> 60, end |-> 90]>>,
      <<[word |-> "x", start |-> 20, end |-> 50], [word |-> "y", start |-> 50, end |-> 100],
        [word |-> "z", start |-> 100, end |-> 250]>>,
      <<[word |-> "x", start |-> 0, end |-> 50], [word |-> "y", start |-> 40, end |-> 70],
        [word |-> "z", start |-> 70, end |-> 100]>> }

ProviderOutcomes == [raises : BOOLEAN, words : ProviderWords]

\* The estimator's result as get_whisper_subtitles returns it.
FromEstimator(expected_text, audio_duration, called) ==
    LET r == _approx_segments(expected_text, audio_duration)
    IN  [raised |-> FALSE, provider_called |-> called, source |-> "estimator",
         scale |-> r.scale, segs |-> r.segs]

\* A bug the selection claim must detect: few provider words are returned as
\* they are, without falling back to the estimator.
get_whisper_subtitles_without_fallback(language, expected_text, audio_duration, provider) ==
    LET lang_norm == normalize_whisper_lang(language)
        truthy == expected_text # <<>> /\ audio_duration # 0
    IN  IF truthy /\ lang_norm \in REGIONAL_LANG_PREFIXES
        THEN FromEstimator(expected_text, audio_duration, FALSE)
        ELSE [raised |-> provider.raises, provider_called |-> TRUE,
              source |-> "provider", scale |-> 1,
              segs |-> IF provider.raises THEN <<>> ELSE provider.words]

\* get_whisper_subtitles(audio_path, language, expected_text, audio_duration);
\* provider is what whisper does with audio_path when it is called.
get_whisper_subtitles(language, expected_text, audio_duration, provider) ==
    LET lang_norm == normalize_whisper_lang(language)
        truthy == expected_text # <<>> /\ audio_duration # 0
        out == provider.words
    IN  IF truthy /\ lang_norm \in REGIONAL_LANG_PREFIXES
        THEN FromEstimator(expected_text, audio_duration, FALSE)
        ELSE IF provider.raises
        THEN [raised |-> TRUE, provider_called |-> TRUE, source |-> "provider",
              scale |-> 1, segs |-> <<>>]
        ELSE IF truthy /\ Len(out) < 3
        THEN FromEstimator(expected_text, audio_duration, TRUE)
        ELSE [raised |-> FALSE, provider_called |-> TRUE, source |-> "provider",
              scale |-> 1, segs |-> out]

Texts == UNION {[1..n -> Vocabulary] : n \in 0..MaxTokens}

\* Audio durations (cs) given to the timing engine: none/zero, shorter than
\* the per-word floors, and ordinary ones.
AudioDurations == {0, 5, 10, 100, 250}

\* The provider's timestamps lie within the audio it transcribed, where
\* the duration of that audio is known.
WithinAudio(words, audio_duration) ==
    audio_duration > 0 => \A i \in 1..Len(words) : words[i].end <= audio_duration

TimingInputs ==
    {i \in [language : LangHints, expected_text : Texts,
             audio_duration : AudioDurations, provider : ProviderOutcomes] :
        WithinAudio(i.provider.words, i.audio_duration)}

NoTimingResult ==
    [raised |-> FALSE, provider_called |-> FALSE, source |-> "none",
     scale |-> 1, segs |-> <<>>]

\* The pure components are checked on their own: the rest of the state is idle.
InitTiming ==
    /\ timing \in [phase : {"input"}, in : TimingInputs, out : {NoTimingResult}]
    /\ captions = [phase |-> "idle"]
    /\ stitcher = [phase |-> "idle"]
    /\ jobstore = [now |-> 0, jobs |-> <<>>]
    /\ timeline = [phase |-> "idle"]
    /\ projects = <<>>
    /\ jobs = <<>>
    /\ pc = <<>>
    /\ ctx = <<>>
    /\ outputs = <<>>

\* One call of the Subtitle Timing Engine on the drawn input.
CallTimingEngine ==
    /\ timing.phase = "input"
    /\ timing' = [timing EXCEPT
                    !.phase = "done",
                    !.out = get_whisper_subtitles(timing.in.language,
                                                  timing.in.expected_text,
                                                  timing.in.audio_duration,
                                                  timing.in.provider)]
    /\ UNCHANGED <<renderVars, captions, stitcher, jobstore, timeline>>

(***************************************************************************)
(*                pipelines/subtitles.py : Caption Builder                 *)
(***************************************************************************)

\* format_ass_time(seconds) -> "H:MM:SS.CC", as the fields it prints; the
\* seconds field s % 60 printed with two decimals is kept in cs.
format_ass_time(t) ==
    [h |-> t \div 360000, m |-> (t % 360000) \div 6000, cs |-> t % 6000]

\* The time a printed H:MM:SS.CC stands for, in cs.
AssTimeToCs(f) == f.h * 360000 + f.m * 6000 + f.cs

\* len() of a caption word: the words of the vocabulary and the provider's.
VisibleLen(w) == IF w = "go" THEN 2 ELSE 1

MAX_WIDTH == 35

\* smart_wrap_with_tags: greedy wrapping by visible width (markup is not
\* counted); parts are [w, hi] and the result is the sequence of lines.
RECURSIVE WrapLoop(_, _, _, _)
WrapLoop(parts, lines, cur, cur_len) ==
    IF parts = <<>>
    THEN IF cur = <<>> THEN lines ELSE Append(lines, cur)
    ELSE LET part == Head(parts)
             L == VisibleLen(part.w)
         IN  IF cur_len + L + 1 <= MAX_WIDTH \/ cur = <<>>
             THEN WrapLoop(Tail(parts), lines, Append(cur, part), cur_len + L + 1)
             ELSE WrapLoop(Tail(parts), Append(lines, cur), <<part>>, L + 1)

smart_wrap_with_tags(parts) == WrapLoop(parts, <<>>, <<>>, 0)

\* The words of a scene with word i highlighted (i = 0: none, the lead-in).
Colored(segs, i) ==
    [j \in 1..Len(segs) |-> [w |-> segs[j].word, hi |-> (j = i)]]

\* The lead-in event of a scene (lines 123-127), if its first word starts
\* more than 0.1 s into the scene.
IntroEvents(si, segs, offset) ==
    IF segs[1].start > 10
    THEN <<[scene |-> si, kind |-> "intro", index |-> 0,
            start |-> format_ass_time(offset),
            end |-> format_ass_time(offset + segs[1].start),
            text |-> smart_wrap_with_tags(Colored(segs, 0))]>>
    ELSE <<>>

\* The event of word i of a scene (lines 129-141).
WordEvent(si, segs, i, offset, last_end) ==
    LET st == offset + segs[i].start
        en0 == offset + (IF i < Len(segs) THEN segs[i + 1].start ELSE last_end)
        en == IF en0 <= st THEN st + 10 ELSE en0
    IN  [scene |-> si, kind |-> "word", index |-> i,
         start |-> format_ass_time(st), end |-> format_ass_time(en),
         text |-> smart_wrap_with_tags(Colored(segs, i))]

RECURSIVE WordEvents(_, _, _, _, _)
WordEvents(si, segs, i, offset, last_end) ==
    IF i > Len(segs) THEN <<>>
    ELSE <<WordEvent(si, segs, i, offset, last_end)>>
         \o WordEvents(si, segs, i + 1, offset, last_end)

DEFAULT_SCENE_DURATION == 500

\* dur = scene_durations[si] if si < len(scene_durations) else 5.0
SceneDur(scene_durations, si) ==
    IF si <= Len(scene_durations) THEN scene_durations[si]
    ELSE DEFAULT_SCENE_DURATION

\* A bug the offset claims must detect: a scene without segments does not
\* advance the offset.
NextOffsetSkippingEmpty(offset, segs, dur) ==
    IF segs = <<>> THEN offset ELSE offset + dur

\* offset += dur, in both branches of the loop (lines 117 and 143).
NextOffset(offset, segs, dur) == offset + dur

\* The loop of generate_combined_ass_subtitles from scene si on (1-based).
RECURSIVE CaptionLoop(_, _, _, _)
CaptionLoop(all_word_segments, scene_durations, si, offset) ==
    IF si > Len(all_word_segments) THEN <<>>
    ELSE LET segs == all_word_segments[si]
             dur == SceneDur(scene_durations, si)
             next == NextOffset(offset, segs, dur)
         IN  IF segs = <<>>
             THEN CaptionLoop(all_word_segments, scene_durations, si + 1, next)
             ELSE LET last_end == Max(segs[Len(segs)].end, dur)
                  IN  IntroEvents(si, segs, offset)
                      \o WordEvents(si, segs, 1, offset, last_end)
                      \o CaptionLoop(all_word_segments, scene_durations, si + 1, next)

\* generate_combined_ass_subtitles: the events written after the header.
generate_combined_ass_subtitles(all_word_segments, scene_durations) ==
    CaptionLoop(all_word_segments, scene_durations, 1, 0)

\* Word segments (cs) of one scene, as the timing engine can hand them on:
\* none, the provider's, and the estimator's for three words in 0.1 s.
SceneSegChoices ==
    { <<>>,
      <<[word |-> "a", start |-> 0, end |-> 100]>>,
      <<[word |-> "a", start |-> 0, end |-> 50], [word |-> "go", start |-> 50, end |-> 100]>>,
      <<[word |-> "x", start |-> 30, end |-> 80]>>,
      <<[word |-> "x", start |-> 20, end |-> 50], [word |-> "y", start |-> 50, end |-> 100],
        [word |-> "z", start |-> 100, end |-> 250]>>,
      <<[word |-> "a", start |-> 0, end |-> 6], [word |-> "a", start |-> 6, end |-> 10],
        [word |-> "a", start |-> 10, end |-> 10]>> }

SceneDurations == {0, 10, 100, 200, 300}

CaptionInputs ==
    UNION {[all_word_segments : [1..n -> SceneSegChoices],
            scene_durations : UNION {[1..m -> SceneDurations] : m \in 0..n}]
           : n \in 0..MaxScenes}

InitCaptions ==
    /\ captions \in [phase : {"input"}, in : CaptionInputs, events : {<<>>}]
    /\ timing = [phase |-> "idle"]
    /\ stitcher = [phase |-> "idle"]
    /\ jobstore = [now |-> 0, jobs |-> <<>>]
    /\ timeline = [phase |-> "idle"]
    /\ projects = <<>>
    /\ jobs = <<>>
    /\ pc = <<>>
    /\ ctx = <<>>
    /\ outputs = <<>>

\* One call of the Caption Builder on the drawn input.
CallCaptionBuilder ==
    /\ captions.phase = "input"
    /\ captions' = [captions EXCEPT
                      !.phase = "done",
                      !.events = generate_combined_ass_subtitles(
                                     captions.in.all_word_segments,
                                     captions.in.scene_durations)]
    /\ UNCHANGED <<renderVars, timing, stitcher, jobstore, timeline>>

(***************************************************************************)
(*      services/memory_store.py, services/job_service.py: the jobs        *)
(***************************************************************************)

\* "p1" is a project of the store; "px" is an id no project has.
ProjectIds == {"p1", "px"}

SUPPORTED_TEMPLATES == {"t0", "t1", "t2", "t3", "t4", "t5", "t6", "t7", "t9"}

\* The template ids a project document can hold: create_project stores the
\* request's template_id as given, "t8" standing for every unsupported id.
TemplateIds == SUPPORTED_TEMPLATES \cup {"t8"}

\* background_music_volume of a project document, in hundredths; num is
\* FALSE for a value float() cannot parse.
Unparseable == [num |-> FALSE, v |-> 0]

Volumes == {[num |-> TRUE, v |-> x] : x \in {-50, 0, 12, 150, 300}} \cup {Unparseable}

DEFAULT_VOLUME == 12

\* The project documents of the store (memory or Mongo) that _run_job hands
\* to render_project_video.  A reference (gameplay_video_path,
\* background_music_path) is "" when missing, else a URL.  scenes is the number
\* of scene records; empty_text tells that the narration text of one of
\* them is empty (voice_overs holds "" for it, render.py line 36).
ProjectDocs ==
    {d \in [template_id : TemplateIds,
             gameplay_video_path : {"", "url"},
             background_music_path : {"", "url"},
             background_music_volume : Volumes,
             scenes : 0..MaxProjScenes,
             empty_text : BOOLEAN,
             last_video_url : {0},
             last_subtitle_url : {0}] :
        /\ d.background_music_path = "" =>
              d.background_music_volume \in {[num |-> TRUE, v |-> DEFAULT_VOLUME], Unparseable}
        /\ d.empty_text => d.scenes > 0}

\* A file of a job's workdir: what it holds (kind "none": no file), of how
\* many scene clips, under which template, with which background gain
\* (-1: no background track mixed in).
NoFile == [kind |-> "none", clips |-> 0, template |-> "", gain |-> -1]

\* The state dict of one render and what its stages have produced so far.
NewCtx ==
    [template_id |-> "", gameplay_video_path |-> "", background_music_path |-> "",
     background_music_volume |-> 0, image_files |-> 0,
     audio_files |-> 0, nclips |-> 0, ffmpeg |-> 0, stitched |-> FALSE,
     ai_video |-> NoFile, final |-> NoFile, subtitle |-> FALSE,
     tmp_out |-> NoFile, mix_exits |-> <<>>, zooms |-> <<>>, uploads |-> {}]

NoResult == [final_video_url |-> 0, subtitle_url |-> 0]

\* MemoryStore.create_job: the new job document.
NewJob(project_id) ==
    [project_id |-> project_id, status |-> "queued", stage |-> "", progress |-> 0,
     error |-> "", result |-> NoResult]

Init ==
    /\ projects \in [{"p1"} -> ProjectDocs]
    /\ jobs = <<>>
    /\ pc = <<>>
    /\ ctx = <<>>
    /\ outputs = [p \in {"p1"} |-> [video |-> 0, subtitle |-> 0]]
    /\ timing = [phase |-> "idle"]
    /\ captions = [phase |-> "idle"]
    /\ stitcher = [phase |-> "idle"]
    /\ jobstore = [now |-> 0, jobs |-> <<>>]
    /\ timeline = [phase |-> "idle"]

JobIds == 1..Len(jobs)

\* JobService.start_generate_video: create the job and start its thread.
start_generate_video(project_id) ==
    /\ Len(jobs) < MaxJobs
    /\ jobs' = Append(jobs, NewJob(project_id))
    /\ pc' = Append(pc, "run")
    /\ ctx' = Append(ctx, NewCtx)
    /\ UNCHANGED <<projects, outputs, timing, captions, stitcher, jobstore, timeline>>

\* The except branch of _run_job (line 56): the job ends failed, result {}.
Failed(job, err) ==
    [job EXCEPT !.status = "failed", !.stage = "failed", !.progress = 100,
                !.error = err, !.result = NoResult]

\* Job j's thread raises err: the handler of _run_job records it.
Raise(j, err) ==
    /\ jobs' = [jobs EXCEPT ![j] = Failed(@, err)]
    /\ pc' = [pc EXCEPT ![j] = "done"]

\* _run_job line 25: update_job(running).
RunJobBegin(j) ==
    /\ pc[j] = "run"
    /\ jobs' = [jobs EXCEPT ![j] = [@ EXCEPT !.status = "running",
                                             !.stage = "starting", !.progress = 1]]
    /\ pc' = [pc EXCEPT ![j] = "load"]
    /\ UNCHANGED <<projects, ctx, outputs, timing, captions, stitcher, jobstore, timeline>>

\* _run_job lines 27-35: get_project; project_not_found, or stage "render".
RunJobLoadProject(j) ==
    /\ pc[j] = "load"
    /\ IF jobs[j].project_id \notin DOMAIN projects
       THEN /\ jobs' = [jobs EXCEPT ![j] = [@ EXCEPT !.status = "failed",
                            !.stage = "failed", !.progress = 100,
                            !.error = "project_not_found"]]
            /\ pc' = [pc EXCEPT ![j] = "done"]
       ELSE /\ jobs' = [jobs EXCEPT ![j] = [@ EXCEPT !.stage = "render", !.progress = 5]]
            /\ pc' = [pc EXCEPT ![j] = "prepare"]
    /\ UNCHANGED <<projects, ctx, outputs, timing, captions, stitcher, jobstore, timeline>>

(***************************************************************************)
(*            pipelines/render.py and the stages it sequences              *)
(***************************************************************************)

\* float(x or 0.12) of render.py line 100 and template.py line 203, on a number.
VolumeOrDefault(v) == IF v = 0 THEN DEFAULT_VOLUME ELSE v

\* vol = max(0.0, min(vol, 2.0)) of mix_bgm_into_video_inplace.
ClampVolume(vol) == Max(0, Min(vol, 200))

\* render_project_video lines 23-102: the scenes, the template id, the
\* scene images (downloaded, or generated and uploaded; not for t9), and the
\* state dict, whose background_music_volume is float(... or 0.12).
RenderPrepare(j) ==
    /\ pc[j] = "prepare"
    /\ LET proj == projects[jobs[j].project_id]
       IN  \E images_ok \in BOOLEAN :
             IF proj.scenes = 0
             THEN /\ images_ok
                  /\ Raise(j, "no_scenes")
                  /\ UNCHANGED ctx
             ELSE IF proj.template_id # "t9" /\ ~images_ok
             THEN /\ Raise(j, "image_preparation_failed")
                  /\ UNCHANGED ctx
             ELSE IF ~proj.background_music_volume.num
             THEN /\ images_ok
                  /\ Raise(j, "volume_not_a_number")
                  /\ UNCHANGED ctx
             ELSE /\ images_ok
                  /\ ctx' = [ctx EXCEPT ![j] = [@ EXCEPT
                        !.template_id = proj.template_id,
                        !.gameplay_video_path = proj.gameplay_video_path,
                        !.background_music_path = proj.background_music_path,
                        !.background_music_volume =
                            VolumeOrDefault(proj.background_music_volume.v),
                        !.image_files =
                            IF proj.template_id = "t9" THEN 0 ELSE proj.scenes]]
                  /\ pc' = [pc EXCEPT ![j] = "voice"]
                  /\ UNCHANGED jobs
    /\ UNCHANGED <<projects, outputs, timing, captions, stitcher, jobstore, timeline>>

\* A bug the t9 claim must detect: t9 builds scene clips like the others.
AfterVoiceAlwaysBuild(template_id) == "build"

\* render.py lines 113-135: after the voice, t9 goes straight to
\* apply_template_from_state, the other templates to build_scenes.
AfterVoice(template_id) == IF template_id = "t9" THEN "template" ELSE "build"

\* generate_voice (render.py lines 104-111): one narration file per scene,
\* probed and uploaded; any provider or upload error is fatal.
GenerateVoice(j) ==
    /\ pc[j] = "voice"
    /\ \E ok \in BOOLEAN :
          IF ok
          THEN /\ ctx' = [ctx EXCEPT ![j].audio_files =
                              projects[jobs[j].project_id].scenes]
               /\ pc' = [pc EXCEPT ![j] = AfterVoice(ctx[j].template_id)]
               /\ UNCHANGED jobs
          ELSE /\ Raise(j, "voice_generation_failed")
               /\ UNCHANGED ctx
    /\ UNCHANGED <<projects, outputs, timing, captions, stitcher, jobstore, timeline>>

\* random.choice([(1.00, MAX_ZOOM), (MAX_ZOOM, 1.00)]) of
\* combine_scene_with_animation (line 38): the module-level generator is
\* never seeded, the state's seed is not read.
ZoomDirections == {"in_out", "out_in"}

\* One turn of the loop of build_scenes: combine_scene_with_animation probes
\* the audio, asks the timing engine, and invokes ffmpeg once for the clip.
BuildScene(j) ==
    /\ pc[j] = "build"
    /\ LET total == Min(ctx[j].audio_files, ctx[j].image_files)
       IN  \E outcome \in {"ok", "timing_raised", "ffmpeg_failed"} :
             CASE outcome = "ok" ->
                    \E zoom \in ZoomDirections :
                        /\ ctx' = [ctx EXCEPT ![j].nclips = @ + 1,
                                              ![j].ffmpeg = @ + 1,
                                              ![j].zooms = Append(@, zoom)]
                        /\ pc' = [pc EXCEPT ![j] =
                                      IF ctx[j].nclips + 1 = total THEN "stitch"
                                      ELSE "build"]
                        /\ UNCHANGED jobs
               [] outcome = "timing_raised" ->
                    /\ Raise(j, "speech_timing_failed")
                    /\ UNCHANGED ctx
               [] outcome = "ffmpeg_failed" ->
                    /\ Raise(j, "scene_clip_failed")
                    /\ ctx' = [ctx EXCEPT ![j].ffmpeg = @ + 1]
    /\ UNCHANGED <<projects, outputs, timing, captions, stitcher, jobstore, timeline>>

\* A bug the captions-artifact claim must detect: captions are written only
\* for a template that burns them in.
StitchWritesCaptionsWhenBurned(template_id) == template_id = "t9"

\* stitch_final_video lines 152-155: the captions document is written
\* "always into workdir", whatever the template, and its path recorded.
StitchWritesCaptions(template_id) == TRUE

\* stitch_final_video (render.py lines 137-143): one ffmpeg run (remux or
\* crossfade graph), then the captions document, then the stitched file.
StitchFinalVideo(j) ==
    /\ pc[j] = "stitch"
    /\ \E ok \in BOOLEAN :
          IF ok
          THEN /\ ctx' = [ctx EXCEPT ![j] = [@ EXCEPT
                              !.ffmpeg = @ + 1,
                              !.stitched = TRUE,
                              !.subtitle = StitchWritesCaptions(ctx[j].template_id),
                              !.ai_video = [kind |-> "stitched", clips |-> ctx[j].nclips,
                                            template |-> "", gain |-> -1]]]
               /\ pc' = [pc EXCEPT ![j] = "template"]
               /\ UNCHANGED jobs
          ELSE /\ Raise(j, "stitch_failed")
               /\ ctx' = [ctx EXCEPT ![j].ffmpeg = @ + 1]
    /\ UNCHANGED <<projects, outputs, timing, captions, stitcher, jobstore, timeline>>

\* A bug the stage-order claim must detect: the mixer is never called.
AfterTemplateWithoutMixer(bgm_local) == "upload_video"

\* if bgm_local: mix_bgm_into_video_inplace(...) of apply_template_from_state
\* (lines 232-233, 242-243, 263-264), else the result is returned.
AfterTemplate(bgm_local) == IF bgm_local THEN "mix" ELSE "upload_video"

\* A bug the pass-through claim must detect: t0 re-encodes the stitched track.
ReencodeStitched(ai_video) == [ai_video EXCEPT !.kind = "composite", !.template = "t0"]

\* shutil.copy2(ai_video_local, output_file) of template t0 (line 241).
CopyStitched(ai_video) == ai_video

\* apply_template_from_state up to the call of the mixer (template.py lines
\* 189-231, 236-241, 246-262): the template id is checked, the background
\* track is fetched, then per template: t9 needs the secondary track and runs
\* apply_template_9 (ffmpeg concat, probe, captions, ffmpeg burn-in); t0
\* copies the stitched file; t1..t7 need the secondary track and run
\* apply_template_to_ai_video (probe, one ffmpeg run).
ApplyTemplate(j) ==
    /\ pc[j] = "template"
    /\ LET c == ctx[j]
           tid == c.template_id
           bgm == c.background_music_path # ""
           next == AfterTemplate(bgm)
       IN  \E outcome \in {"ok", "bgm_download_failed", "gameplay_download_failed",
                            "probe_failed", "concat_failed", "ffmpeg_failed"} :
             IF tid \notin SUPPORTED_TEMPLATES
             THEN /\ outcome = "ok"
                  /\ Raise(j, "unknown_template_id")
                  /\ UNCHANGED ctx
             ELSE IF outcome = "bgm_download_failed"
             THEN /\ bgm
                  /\ Raise(j, "bgm_download_failed")
                  /\ UNCHANGED ctx
             ELSE IF tid = "t0"
             THEN /\ outcome = "ok"
                  /\ ctx' = [ctx EXCEPT ![j].final = CopyStitched(c.ai_video)]
                  /\ pc' = [pc EXCEPT ![j] = next]
                  /\ UNCHANGED jobs
             ELSE IF c.gameplay_video_path = ""
             THEN /\ outcome = "ok"
                  /\ Raise(j, "requires_gameplay_video_path")
                  /\ UNCHANGED ctx
             ELSE IF outcome = "gameplay_download_failed"
             THEN /\ Raise(j, "gameplay_download_failed")
                  /\ UNCHANGED ctx
             ELSE IF tid = "t9"
             THEN CASE outcome = "concat_failed" ->
                         /\ Raise(j, "audio_concat_failed")
                         /\ ctx' = [ctx EXCEPT ![j].ffmpeg = @ + 1]
                    [] outcome = "probe_failed" ->
                         /\ Raise(j, "probe_failed")
                         /\ ctx' = [ctx EXCEPT ![j].ffmpeg = @ + 1]
                    [] outcome = "ffmpeg_failed" ->
                         /\ Raise(j, "template_failed")
                         /\ ctx' = [ctx EXCEPT ![j].ffmpeg = @ + 2, ![j].subtitle = TRUE]
                    [] outcome = "ok" ->
                         /\ ctx' = [ctx EXCEPT ![j] = [@ EXCEPT
                                        !.ffmpeg = @ + 2,
                                        !.subtitle = TRUE,
                                        !.final = [kind |-> "captioned", clips |-> 0,
                                                   template |-> "t9", gain |-> -1]]]
                         /\ pc' = [pc EXCEPT ![j] = next]
                         /\ UNCHANGED jobs
                    [] OTHER -> FALSE
             ELSE CASE outcome = "probe_failed" ->
                         /\ Raise(j, "probe_failed")
                         /\ UNCHANGED ctx
                    [] outcome = "ffmpeg_failed" ->
                         /\ Raise(j, "template_failed")
                         /\ ctx' = [ctx EXCEPT ![j].ffmpeg = @ + 1]
                    [] outcome = "ok" ->
                         /\ ctx' = [ctx EXCEPT ![j] = [@ EXCEPT
                                        !.ffmpeg = @ + 1,
                                        !.final = [kind |-> "composite",
                                                   clips |-> c.ai_video.clips,
                                                   template |-> tid, gain |-> -1]]]
                         /\ pc' = [pc EXCEPT ![j] = next]
                         /\ UNCHANGED jobs
                    [] OTHER -> FALSE
    /\ UNCHANGED <<projects, outputs, timing, captions, stitcher, jobstore, timeline>>

\* A bug the retry claim must detect: the mixer retries after every failure.
MixerNextRetrying(attempt, exit_ok) ==
    IF exit_ok THEN "mix_remove" ELSE "mix_retry"

\* try: run_ffmpeg(cmd) / except CalledProcessError: run_ffmpeg(cmd2) of
\* mix_bgm_into_video_inplace (lines 133-139): where the mixer goes after its
\* attempt number `attempt` ended with exit status zero (exit_ok) or not.
MixerNext(attempt, exit_ok) ==
    IF exit_ok THEN "mix_remove"
    ELSE IF attempt = 1 THEN "mix_retry"
    ELSE "raise"

\* One ffmpeg run of the mixer writing tmp_out, with the gain
\* max(0.0, min(float(volume), 2.0)) of bgm_vol = float(volume or 0.12).
RunMixer(j, attempt, exit_ok) ==
    LET vol == ClampVolume(VolumeOrDefault(ctx[j].background_music_volume))
        next == MixerNext(attempt, exit_ok)
        ran == [ctx[j] EXCEPT !.ffmpeg = @ + 1,
                              !.mix_exits = Append(@, exit_ok)]
    IN  IF next = "raise"
        THEN /\ Raise(j, "bgm_mix_failed")
             /\ ctx' = [ctx EXCEPT ![j] = ran]
        ELSE /\ ctx' = [ctx EXCEPT ![j] = [ran EXCEPT !.tmp_out =
                            IF exit_ok THEN [ctx[j].final EXCEPT !.gain = vol]
                            ELSE NoFile]]
             /\ pc' = [pc EXCEPT ![j] = next]
             /\ UNCHANGED jobs

\* mix_bgm_into_video_inplace lines 110-134, called when a background track
\* is configured: probe the video's duration (ffprobe_duration raises on a
\* failed probe), then the first ffmpeg run (video stream copied).
MixBgm(j) ==
    /\ pc[j] = "mix"
    /\ \E outcome \in {"probe_failed", "exit_zero", "exit_nonzero"} :
          IF outcome = "probe_failed"
          THEN /\ Raise(j, "probe_failed")
               /\ UNCHANGED ctx
          ELSE RunMixer(j, 1, outcome = "exit_zero")
    /\ UNCHANGED <<projects, outputs, timing, captions, stitcher, jobstore, timeline>>

\* mix_bgm_into_video_inplace lines 135-139: the second ffmpeg run (video
\* re-encoded); its failure propagates.
MixBgmRetry(j) ==
    /\ pc[j] = "mix_retry"
    /\ \E exit_ok \in BOOLEAN : RunMixer(j, 2, exit_ok)
    /\ UNCHANGED <<projects, outputs, timing, captions, stitcher, jobstore, timeline>>

\* mix_bgm_into_video_inplace lines 141-142: os.remove(video_path), an
\* OSError being ignored.
MixBgmRemove(j) ==
    /\ pc[j] = "mix_remove"
    /\ \E removed \in BOOLEAN :
          ctx' = [ctx EXCEPT ![j].final = IF removed THEN NoFile ELSE @]
    /\ pc' = [pc EXCEPT ![j] = "mix_rename"]
    /\ UNCHANGED <<projects, jobs, outputs, timing, captions, stitcher, jobstore, timeline>>

\* mix_bgm_into_video_inplace line 143: os.rename(tmp_out, video_path).
MixBgmRename(j) ==
    /\ pc[j] = "mix_rename"
    /\ \E ok \in BOOLEAN :
          IF ok
          THEN /\ ctx' = [ctx EXCEPT ![j] = [@ EXCEPT !.final = ctx[j].tmp_out,
                                                      !.tmp_out = NoFile]]
               /\ pc' = [pc EXCEPT ![j] = "upload_video"]
               /\ UNCHANGED jobs
          ELSE /\ Raise(j, "rename_failed")
               /\ UNCHANGED ctx
    /\ UNCHANGED <<projects, outputs, timing, captions, stitcher, jobstore, timeline>>

\* render.py lines 122 and 151: upload_path(final_path, public_id="final_video").
UploadVideo(j) ==
    /\ pc[j] = "upload_video"
    /\ \E ok \in BOOLEAN :
          IF ok
          THEN /\ outputs' = [outputs EXCEPT ![jobs[j].project_id].video = j]
               /\ ctx' = [ctx EXCEPT ![j].uploads = @ \cup {"final_video"}]
               /\ pc' = [pc EXCEPT ![j] = "upload_subtitle"]
               /\ UNCHANGED jobs
          ELSE /\ Raise(j, "upload_failed")
               /\ UNCHANGED <<ctx, outputs>>
    /\ UNCHANGED <<projects, timing, captions, stitcher, jobstore, timeline>>

\* render.py lines 123 and 152: upload_path(subtitle_path, public_id=
\* "subtitle.ass"); then the result is returned to _run_job.
UploadSubtitle(j) ==
    /\ pc[j] = "upload_subtitle"
    /\ \E ok \in BOOLEAN :
          IF ok
          THEN /\ outputs' = [outputs EXCEPT ![jobs[j].project_id].subtitle = j]
               /\ ctx' = [ctx EXCEPT ![j].uploads = @ \cup {"subtitle.ass"}]
               /\ pc' = [pc EXCEPT ![j] = "succeed"]
               /\ UNCHANGED jobs
          ELSE /\ Raise(j, "upload_failed")
               /\ UNCHANGED <<ctx, outputs>>
    /\ UNCHANGED <<projects, timing, captions, stitcher, jobstore, timeline>>

\* _run_job lines 39-45: update_job(succeeded, result).
RunJobSucceeded(j) ==
    /\ pc[j] = "succeed"
    /\ jobs' = [jobs EXCEPT ![j] = [@ EXCEPT
                    !.status = "succeeded", !.stage = "done", !.progress = 100,
                    !.error = "",
                    !.result = [final_video_url |-> j, subtitle_url |-> j]]]
    /\ pc' = [pc EXCEPT ![j] = "pointers"]
    /\ UNCHANGED <<projects, ctx, outputs, timing, captions, stitcher, jobstore, timeline>>

\* _run_job lines 48-51: update_project(last_video_url, last_subtitle_url).
RunJobUpdatePointers(j) ==
    /\ pc[j] = "pointers"
    /\ projects' = [projects EXCEPT ![jobs[j].project_id] = [@ EXCEPT
                        !.last_video_url = jobs[j].result.final_video_url,
                        !.last_subtitle_url = jobs[j].result.subtitle_url]]
    /\ pc' = [pc EXCEPT ![j] = "done"]
    /\ UNCHANGED <<jobs, ctx, outputs, timing, captions, stitcher, jobstore, timeline>>

Next ==
    \/ \E p \in ProjectIds : start_generate_video(p)
    \/ \E j \in JobIds : RunJobBegin(j)
    \/ \E j \in JobIds : RunJobLoadProject(j)
    \/ \E j \in JobIds : RenderPrepare(j)
    \/ \E j \in JobIds : GenerateVoice(j)
    \/ \E j \in JobIds : BuildScene(j)
    \/ \E j \in JobIds : StitchFinalVideo(j)
    \/ \E j \in JobIds : ApplyTemplate(j)
    \/ \E j \in JobIds : MixBgm(j)
    \/ \E j \in JobIds : MixBgmRetry(j)
    \/ \E j \in JobIds : MixBgmRemove(j)
    \/ \E j \in JobIds : MixBgmRename(j)
    \/ \E j \in JobIds : UploadVideo(j)
    \/ \E j \in JobIds : UploadSubtitle(j)
    \/ \E j \in JobIds : RunJobSucceeded(j)
    \/ \E j \in JobIds : RunJobUpdatePointers(j)

Spec == Init /\ [][Next]_vars

(***************************************************************************)
(*   services/store.py with STORE_BACKEND = "mongo": a store call raises   *)
(***************************************************************************)

\* The positions of _run_job's try block at which the next statement is a
\* call of STORE (lines 25, 27-35, 39 and 48); db/mongo_store.py hands the
\* driver's exceptions on to the caller.
StoreCallPoints == {"run", "load", "succeed", "pointers"}

\* A call of STORE in the try block raises; the handler's update_job
\* (line 56) returns: the job is recorded failed.
StoreRaises(j) ==
    /\ pc[j] \in StoreCallPoints
    /\ Raise(j, "store_error")
    /\ UNCHANGED <<projects, ctx, outputs, timing, captions, stitcher, jobstore, timeline>>

\* A call of STORE in the try block raises and so does the handler's
\* update_job (line 56): the exception ends the thread, the job document
\* stays as it was.
HandlerRaises(j) ==
    /\ pc[j] \in StoreCallPoints
    /\ pc' = [pc EXCEPT ![j] = "dead"]
    /\ UNCHANGED <<projects, jobs, ctx, outputs, timing, captions, stitcher, jobstore, timeline>>

\* One project whose render passes every stage (scene clips, template,
\* background mix), under a stitched template or t9.
InitMongo ==
    /\ projects \in [{"p1"} -> {d \in ProjectDocs :
                                    /\ d.template_id \in {"t0", "t9"}
                                    /\ d.gameplay_video_path = "url"
                                    /\ d.background_music_path = "url"
                                    /\ d.background_music_volume = [num |-> TRUE, v |-> DEFAULT_VOLUME]
                                    /\ d.scenes = 1
                                    /\ ~d.empty_text}]
    /\ jobs = <<>>
    /\ pc = <<>>
    /\ ctx = <<>>
    /\ outputs = [p \in {"p1"} |-> [video |-> 0, subtitle |-> 0]]
    /\ timing = [phase |-> "idle"]
    /\ captions = [phase |-> "idle"]
    /\ stitcher = [phase |-> "idle"]
    /\ jobstore = [now |-> 0, jobs |-> <<>>]
    /\ timeline = [phase |-> "idle"]

\* The statements of job j's thread (threading.Thread(target=_run_job)).
RunJob(j) ==
    \/ RunJobBegin(j)
    \/ RunJobLoadProject(j)
    \/ RenderPrepare(j)
    \/ GenerateVoice(j)
    \/ BuildScene(j)
    \/ StitchFinalVideo(j)
    \/ ApplyTemplate(j)
    \/ MixBgm(j)
    \/ MixBgmRetry(j)
    \/ MixBgmRemove(j)
    \/ MixBgmRename(j)
    \/ UploadVideo(j)
    \/ UploadSubtitle(j)
    \/ RunJobSucceeded(j)
    \/ RunJobUpdatePointers(j)
    \/ StoreRaises(j)
    \/ HandlerRaises(j)

NextMongo ==
    \/ \E p \in ProjectIds : start_generate_video(p)
    \/ \E j \in JobIds : RunJobBegin(j)
    \/ \E j \in JobIds : RunJobLoadProject(j)
    \/ \E j \in JobIds : RenderPrepare(j)
    \/ \E j \in JobIds : GenerateVoice(j)
    \/ \E j \in JobIds : BuildScene(j)
    \/ \E j \in JobIds : StitchFinalVideo(j)
    \/ \E j \in JobIds : ApplyTemplate(j)
    \/ \E j \in JobIds : MixBgm(j)
    \/ \E j \in JobIds : MixBgmRetry(j)
    \/ \E j \in JobIds : MixBgmRemove(j)
    \/ \E j \in JobIds : MixBgmRename(j)
    \/ \E j \in JobIds : UploadVideo(j)
    \/ \E j \in JobIds : UploadSubtitle(j)
    \/ \E j \in JobIds : RunJobSucceeded(j)
    \/ \E j \in JobIds : RunJobUpdatePointers(j)
    \/ \E j \in JobIds : StoreRaises(j)
    \/ \E j \in JobIds : HandlerRaises(j)

\* Every started thread is scheduled again and again.
FairThreads == \A j \in 1..MaxJobs : WF_vars(j \in JobIds /\ RunJob(j))

SpecMongo == InitMongo /\ [][NextMongo]_vars /\ FairThreads

(***************************************************************************)
(*               pipelines/video.py : the Timeline Stitcher                *)
(***************************************************************************)

\* TRANSITION_DURATION = 1.0, in centiseconds.
TRANSITION_DURATION == 100

\* The trim of a clip's audio when scene_durations has no entry for it
\* (5.0 of stitch_final_video line 134), in centiseconds.
DEFAULT_TRIM == 500

\* The clip combine_scene_with_animation renders for the scene of index
\* scene_idx (0-based): the narration as audio, and video for the narration's
\* duration plus, after the first scene, the transition.
SceneClip(audio_duration, scene_idx) ==
    [video |-> IF scene_idx > 0 THEN audio_duration + TRANSITION_DURATION
               ELSE audio_duration,
     audio |-> audio_duration]

\* build_scenes: the clips of the scenes, in scene order.
SceneVideos(scene_durations) ==
    [i \in 1..Len(scene_durations) |-> SceneClip(scene_durations[i], i - 1)]

\* A bug the crossfade claim must detect: the transition is not subtracted.
XfadeOffsetAtCumulative(cumulative) == cumulative

\* offset = cumulative - TRANSITION_DURATION (line 126).
XfadeOffset(cumulative) == cumulative - TRANSITION_DURATION

\* The loop of lines 124-130 from clip i (1-based; the code's i is i - 1):
\* the offsets of the crossfades joining clips i..n.
RECURSIVE XfadeLoop(_, _, _, _)
XfadeLoop(n, scene_durations, i, cumulative) ==
    IF i > n THEN <<>>
    ELSE <<XfadeOffset(cumulative)>> \o
         XfadeLoop(n, scene_durations, i + 1,
                   IF i <= Len(scene_durations) THEN cumulative + scene_durations[i]
                   ELSE cumulative)

\* Lines 133-137: atrim=0:dur of every clip's audio.
AudioTrims(n, scene_durations) ==
    [i \in 1..n |-> IF i <= Len(scene_durations) THEN scene_durations[i]
                    ELSE DEFAULT_TRIM]

\* The audio the concat filter of line 138 yields: every clip's audio cut at
\* its trim, one after the other.
ConcatAudio(scene_videos, trims) ==
    SumSeq([i \in 1..Len(scene_videos) |-> Min(scene_videos[i].audio, trims[i])])

\* stitch_final_video: a single clip is remuxed; several clips are joined
\* by crossfades, their audio trimmed and concatenated.
stitch_final_video(scene_videos, scene_durations) ==
    LET n == Len(scene_videos)
        trims == AudioTrims(n, scene_durations)
    IN  IF n = 1
        THEN [offsets |-> <<>>, trims |-> <<>>, audio |-> scene_videos[1].audio]
        ELSE [offsets |-> XfadeLoop(n, scene_durations, 2,
                                    IF scene_durations # <<>> THEN scene_durations[1]
                                    ELSE 0),
              trims |-> trims,
              audio |-> ConcatAudio(scene_videos, trims)]

\* Narration durations (cs) as get_audio_duration reports them: 0 for a
\* failed probe, shorter than, equal to and longer than the transition.
ClipDurations == {0, 50, 100, 250, 400}

StitcherInputs == UNION {[1..n -> ClipDurations] : n \in 1..MaxClips}

NoStitch == [offsets |-> <<>>, trims |-> <<>>, audio |-> 0]

InitStitcher ==
    /\ stitcher \in [phase : {"input"}, scene_durations : StitcherInputs,
                      out : {NoStitch}]
    /\ timing = [phase |-> "idle"]
    /\ captions = [phase |-> "idle"]
    /\ jobstore = [now |-> 0, jobs |-> <<>>]
    /\ timeline = [phase |-> "idle"]
    /\ projects = <<>>
    /\ jobs = <<>>
    /\ pc = <<>>
    /\ ctx = <<>>
    /\ outputs = <<>>

\* build_scenes then stitch_final_video on the drawn narration durations.
CallStitcher ==
    /\ stitcher.phase = "input"
    /\ stitcher' = [stitcher EXCEPT
                      !.phase = "done",
                      !.out = stitch_final_video(SceneVideos(stitcher.scene_durations),
                                                 stitcher.scene_durations)]
    /\ UNCHANGED <<renderVars, timing, captions, jobstore, timeline>>

SpecStitcher == InitStitcher /\ [][CallStitcher]_vars

(***************************************************************************)
(*         services/memory_store.py : the latest job of a project          *)
(***************************************************************************)

\* sort(key=created_at, reverse=True) of a list, one element at a time:
\* Python's sort is stable also with reverse=True, so an element goes behind
\* the elements already placed whose key is greater or equal.
RECURSIVE InsertByCreatedAtDesc(_, _)
InsertByCreatedAtDesc(sorted, x) ==
    IF sorted = <<>> THEN <<x>>
    ELSE IF Head(sorted).created_at >= x.created_at
    THEN <<Head(sorted)>> \o InsertByCreatedAtDesc(Tail(sorted), x)
    ELSE <<x>> \o sorted

RECURSIVE SortByCreatedAtDesc(_)
SortByCreatedAtDesc(list) ==
    IF list = <<>> THEN <<>>
    ELSE InsertByCreatedAtDesc(SortByCreatedAtDesc(SubSeq(list, 1, Len(list) - 1)),
                               list[Len(list)])

\* The jobs of a project, in the order of the store's dict (creation order).
RECURSIVE JobsOfProject(_, _)
JobsOfProject(all, project_id) ==
    IF all = <<>> THEN <<>>
    ELSE IF Head(all).project_id = project_id
    THEN <<Head(all)>> \o JobsOfProject(Tail(all), project_id)
    ELSE JobsOfProject(Tail(all), project_id)

\* MemoryStore.get_latest_job_for_project: the job_id found, 0 for None.
get_latest_job_for_project(all, project_id) ==
    LET found == SortByCreatedAtDesc(JobsOfProject(all, project_id))
    IN  IF found = <<>> THEN 0 ELSE found[1].job_id

InitJobStore ==
    /\ jobstore = [now |-> 0, jobs |-> <<>>]
    /\ timeline = [phase |-> "idle"]
    /\ timing = [phase |-> "idle"]
    /\ captions = [phase |-> "idle"]
    /\ stitcher = [phase |-> "idle"]
    /\ projects = <<>>
    /\ jobs = <<>>
    /\ pc = <<>>
    /\ ctx = <<>>
    /\ outputs = <<>>

\* A second passes: now_iso() drops the microseconds.
ClockTick ==
    /\ jobstore.now < MaxClock
    /\ jobstore' = [jobstore EXCEPT !.now = @ + 1]
    /\ UNCHANGED <<renderVars, timing, captions, stitcher, timeline>>

\* MemoryStore.create_job: the job gets created_at = now_iso().
create_job(project_id) ==
    /\ Len(jobstore.jobs) < MaxStoreJobs
    /\ jobstore' = [jobstore EXCEPT !.jobs =
                        Append(@, [job_id |-> Len(jobstore.jobs) + 1,
                                   project_id |-> project_id,
                                   created_at |-> jobstore.now])]
    /\ UNCHANGED <<renderVars, timing, captions, stitcher, timeline>>

NextJobStore ==
    \/ ClockTick
    \/ \E p \in ProjectIds : create_job(p)

SpecJobStore == InitJobStore /\ [][NextJobStore]_vars

(***************************************************************************)
(*    The narration in the final audio track and in the caption file       *)
(***************************************************************************)

\* A bug the timeline claim must detect: the audio segments overlap by the
\* transition, as the video clips do.
RECURSIVE ConcatStartsOverlapping(_)
ConcatStartsOverlapping(lengths) ==
    IF lengths = <<>> THEN <<>>
    ELSE LET front == SubSeq(lengths, 1, Len(lengths) - 1)
         IN  IF front = <<>> THEN <<0>>
             ELSE Append(ConcatStartsOverlapping(front),
                         Max(0, SumSeq(front) - TRANSITION_DURATION * Len(front)))

\* Where each input of an audio concat (the concat filter of video.py line
\* 138, the concat demuxer of template.py line 92) starts in its output:
\* behind the inputs before it.
RECURSIVE ConcatStarts(_)
ConcatStarts(lengths) ==
    IF lengths = <<>> THEN <<>>
    ELSE LET front == SubSeq(lengths, 1, Len(lengths) - 1)
         IN  Append(ConcatStarts(front), SumSeq(front))

\* Word segments (cs) of one narration: none, one word, two words.
NarrationSegChoices ==
    { <<>>,
      <<[word |-> "a", start |-> 0, end |-> 50]>>,
      <<[word |-> "x", start |-> 20, end |-> 50], [word |-> "y", start |-> 50, end |-> 100]>> }

\* The narration files of a render: their durations and word segments.
Narrations ==
    UNION {[1..n -> [duration : ClipDurations, segs : NarrationSegChoices]]
           : n \in 1..MaxClips}

InitTimeline ==
    /\ timeline \in [phase : {"input"}, path : {"stitched", "t9"},
                      narrations : Narrations, starts : {<<>>}, events : {<<>>}]
    /\ timing = [phase |-> "idle"]
    /\ captions = [phase |-> "idle"]
    /\ stitcher = [phase |-> "idle"]
    /\ jobstore = [now |-> 0, jobs |-> <<>>]
    /\ projects = <<>>
    /\ jobs = <<>>
    /\ pc = <<>>
    /\ ctx = <<>>
    /\ outputs = <<>>

\* build_scenes and stitch_final_video: the scene clips' audio, trimmed, is
\* concatenated (one clip: copied), and the captions are written from the
\* scenes' word segments and scene_durations (video.py line 154).
RenderStitched ==
    /\ timeline.phase = "input"
    /\ timeline.path = "stitched"
    /\ LET n == Len(timeline.narrations)
           scene_durations == [i \in 1..n |-> timeline.narrations[i].duration]
           all_word_segments == [i \in 1..n |-> timeline.narrations[i].segs]
           scene_videos == SceneVideos(scene_durations)
           trims == AudioTrims(n, scene_durations)
       IN  timeline' = [timeline EXCEPT
               !.phase = "done",
               !.starts = IF n = 1 THEN <<0>>
                          ELSE ConcatStarts([i \in 1..n |->
                                   Min(scene_videos[i].audio, trims[i])]),
               !.events = generate_combined_ass_subtitles(all_word_segments,
                                                          scene_durations)]
    /\ UNCHANGED <<renderVars, timing, captions, stitcher, jobstore>>

\* apply_template_9: concat_audio_files joins the narration files, and
\* generate_ass_from_audio writes the captions with ffprobe_duration of
\* every file as its scene's duration.
RenderTemplate9 ==
    /\ timeline.phase = "input"
    /\ timeline.path = "t9"
    /\ LET n == Len(timeline.narrations)
           scene_durations == [i \in 1..n |-> timeline.narrations[i].duration]
           all_word_segments == [i \in 1..n |-> timeline.narrations[i].segs]
       IN  timeline' = [timeline EXCEPT
               !.phase = "done",
               !.starts = ConcatStarts([i \in 1..n |-> timeline.narrations[i].duration]),
               !.events = generate_combined_ass_subtitles(all_word_segments,
                                                          scene_durations)]
    /\ UNCHANGED <<renderVars, timing, captions, stitcher, jobstore>>

NextTimeline ==
    \/ RenderStitched
    \/ RenderTemplate9

SpecTimeline == InitTimeline /\ [][NextTimeline]_vars

(***************************************************************************)
(*        Specifications of the two pure components of subtitles.py        *)
(***************************************************************************)

SpecTiming == InitTiming /\ [][CallTimingEngine]_vars

SpecCaptions == InitCaptions /\ [][CallCaptionBuilder]_vars

(***************************************************************************)
(*                     Claims on the Caption Builder                       *)
(***************************************************************************)

\* Sum of the durations of scenes 1..k, a missing entry counting as the default.
RECURSIVE PrefixDuration(_, _)
PrefixDuration(scene_durations, k) ==
    IF k = 0 THEN 0
    ELSE PrefixDuration(scene_durations, k - 1) + SceneDur(scene_durations, k)

\* C4: the global offset applied to the caption events of scene k (the
\* printed start of a word's event minus the word's scene-relative start; the
\* printed start of a lead-in event) is the sum of the durations of the
\* scenes before k, with the default for a missing entry, whether or not the
\* earlier scenes had word segments.
C4_OffsetIsSumOfEarlierDurations ==
    captions.phase = "done" =>
        \A n \in 1..Len(captions.events) :
            LET e == captions.events[n]
                segs == captions.in.all_word_segments[e.scene]
                rel == IF e.kind = "word" THEN segs[e.index].start ELSE 0
            IN  AssTimeToCs(e.start) - rel
                    = PrefixDuration(captions.in.scene_durations, e.scene - 1)

\* Witness of C4: captions were built for a scene that follows a scene without
\* word segments and a scene without a duration entry.
C4_Witness ==
    /\ captions.phase = "done"
    /\ \E n \in 1..Len(captions.events) :
           LET k == captions.events[n].scene
           IN  /\ k = 3
               /\ captions.in.all_word_segments[1] = <<>>
               /\ captions.in.all_word_segments[2] # <<>>
               /\ Len(captions.in.scene_durations) = 1
               /\ captions.in.scene_durations[1] = 200

(***************************************************************************)
(*                  Claims on the Subtitle Timing Engine                   *)
(***************************************************************************)

\* The segments are ordered and do not overlap.
OrderedNonOverlapping(segs) ==
    /\ \A i \in 1..Len(segs) : segs[i].start <= segs[i].end
    /\ \A i \in 1..(Len(segs) - 1) : segs[i].end <= segs[i + 1].start

\* C5 (as claimed): whichever timing source is used, the returned segments
\* are ordered, non-overlapping, and the last one ends at the audio duration.
C5_OrderedAndEndingAtDuration ==
    (timing.phase = "done" /\ ~timing.out.raised /\ timing.in.audio_duration > 0) =>
        LET segs == timing.out.segs
        IN  /\ OrderedNonOverlapping(segs)
            /\ segs # <<>> =>
                   segs[Len(segs)].end = timing.in.audio_duration * timing.out.scale

\* C6 (as claimed): every segment of the Proportional Estimator has
\* 0 <= start < end <= audio duration, for every positive duration.
C6_EstimatorStartBeforeEnd ==
    (timing.phase = "done" /\ timing.out.source = "estimator"
        /\ timing.in.audio_duration > 0) =>
        \A i \in 1..Len(timing.out.segs) :
            LET g == timing.out.segs[i]
            IN  /\ 0 <= g.start
                /\ g.start < g.end
                /\ g.end <= timing.in.audio_duration * timing.out.scale

\* C7 (as claimed): for a zero duration or an empty expected text the engine
\* returns no segment and raises nothing, whatever the provider does.
C7_EmptyForZeroDurationOrEmptyText ==
    (timing.phase = "done"
        /\ (timing.in.audio_duration = 0 \/ timing.in.expected_text = <<>>)) =>
        (~timing.out.raised /\ timing.out.segs = <<>>)

(***************************************************************************)
(*            Claims on the render pipeline and the job service            *)
(***************************************************************************)

\* The project document of job j, when the project exists.
HasProject(j) == jobs[j].project_id \in DOMAIN projects

ProjectOf(j) == projects[jobs[j].project_id]

\* No transcoder work has been done for job j: no ffmpeg run, no scene clip,
\* no stitched track.
NoTranscoderWork(j) ==
    /\ ctx[j].ffmpeg = 0
    /\ ctx[j].nclips = 0
    /\ ~ctx[j].stitched

\* C1 (as claimed): a render whose template id is not one of t0..t7, t9
\* never invokes ffmpeg: no scene clip is synthesised and nothing is stitched.
C1_UnknownTemplateFailsBeforeFfmpeg ==
    \A j \in JobIds :
        (HasProject(j) /\ ProjectOf(j).template_id \notin SUPPORTED_TEMPLATES) =>
            NoTranscoderWork(j)

\* C2 (as claimed): a render with a template that needs a secondary track
\* (t1..t7, t9) and a project without one does no transcoder work: no scene
\* clip is rendered, nothing is stitched or composited.
C2_MissingSecondaryTrackFailsBeforeFfmpeg ==
    \A j \in JobIds :
        (/\ HasProject(j)
         /\ ProjectOf(j).template_id \in SUPPORTED_TEMPLATES \ {"t0"}
         /\ ProjectOf(j).gameplay_video_path = "") =>
            NoTranscoderWork(j)

\* C3 (as claimed): a failed render has published nothing: no final video and
\* no captions document was uploaded by it, its job's result is empty, and
\* the project's last_video_url / last_subtitle_url are not its own.
C3_FailedRenderPublishesNothing ==
    \A j \in JobIds :
        jobs[j].status = "failed" =>
            /\ ctx[j].uploads = {}
            /\ jobs[j].result = NoResult
            /\ HasProject(j) =>
                   /\ ProjectOf(j).last_video_url # j
                   /\ ProjectOf(j).last_subtitle_url # j
                   /\ outputs[jobs[j].project_id].video # j
                   /\ outputs[jobs[j].project_id].subtitle # j

C9_GainNeverRejectedAlwaysClamped ==
    \A j \in JobIds :
        /\ jobs[j].error # "volume_not_a_number"
        /\ ctx[j].final.gain # -1 => ctx[j].final.gain \in 0..200

\* C10 (as claimed): the job service never has two jobs of the same project
\* running at the same time.
C10_OneRenderInFlightPerProject ==
    \A i, j \in JobIds :
        (/\ i # j
         /\ jobs[i].project_id = jobs[j].project_id
         /\ jobs[i].status = "running"
         /\ jobs[i].stage = "render") =>
            ~(jobs[j].status = "running" /\ jobs[j].stage = "render")

\* The output locations job j has written: upload_path writes to the folder
\* of the job's project under a fixed public_id, with overwrite=True.
Written(j) == {<<jobs[j].project_id, u>> : u \in ctx[j].uploads}

\* Job j is rendering.
Rendering(j) == jobs[j].status = "running" /\ jobs[j].stage = "render"

\* C11 (as claimed): two renders running at the same time, of the same
\* project or not, never write the same output location.
C11_ConcurrentRendersIsolated ==
    \A i, j \in JobIds :
        (i # j /\ Rendering(i) /\ Rendering(j)) => Written(i) \cap Written(j) = {}

\* C12: the mixer runs ffmpeg at most twice per mix; a second run happens
\* only after a first run that failed, and is the last; when both failed the
\* job has failed, the video file is still the unmixed original and no mixed
\* file exists.
C12_MixerRetriesOnce ==
    \A j \in JobIds :
        LET exits == ctx[j].mix_exits
        IN  /\ Len(exits) <= 2
            /\ Len(exits) = 2 => ~exits[1]
            /\ pc[j] = "mix_retry" => exits = <<FALSE>>
            /\ exits = <<FALSE, FALSE>> <=> jobs[j].error = "bgm_mix_failed"
            /\ jobs[j].error = "bgm_mix_failed" =>
                   /\ pc[j] = "done"
                   /\ ctx[j].final.kind # "none"
                   /\ ctx[j].final.gain = -1
                   /\ ctx[j].tmp_out = NoFile

\* Witness of C12: a mix whose two ffmpeg runs both failed, on a composited
\* video.
C12_Witness ==
    \E j \in JobIds :
        /\ jobs[j].error = "bgm_mix_failed"
        /\ ctx[j].mix_exits = <<FALSE, FALSE>>
        /\ ctx[j].final.kind = "composite"

\* C13 (as claimed): from the first ffmpeg run of a mix on, the video path
\* always holds a file, the original or the mixed one.
C13_VideoPathNeverEmpty ==
    \A j \in JobIds :
        ctx[j].mix_exits # <<>> => ctx[j].final.kind # "none"

\* C14 (as claimed): no render is aborted by a failed probe.
C14_ProbeFailureNeverAborts ==
    \A j \in JobIds : jobs[j].error # "probe_failed"

(***************************************************************************)
(*                 Claims on the timing-source selection                   *)
(***************************************************************************)

\* The bypass of the provider: a hint of a regional language, with expected
\* text and duration both available.
Bypass(in) ==
    /\ in.language.base \in {l.base : l \in REGIONAL_LANG_PREFIXES}
    /\ in.expected_text # <<>>
    /\ in.audio_duration > 0

\* C17: the provider is called exactly when the bypass does not apply; when
\* nothing was raised, the result is the estimator's output exactly when the
\* bypass applies or the provider returned fewer than 3 words with expected
\* text and duration available, and otherwise the provider's words.
C17_TimingSourceSelection ==
    timing.phase = "done" =>
        LET in == timing.in
            out == timing.out
            available == in.expected_text # <<>> /\ in.audio_duration > 0
            estimated == _approx_segments(in.expected_text, in.audio_duration)
            useEstimator == Bypass(in) \/ (Len(in.provider.words) < 3 /\ available)
        IN  /\ out.provider_called <=> ~Bypass(in)
            /\ out.raised <=> (~Bypass(in) /\ in.provider.raises)
            /\ ~out.raised =>
                   IF useEstimator
                   THEN /\ out.source = "estimator"
                        /\ out.segs = estimated.segs
                        /\ out.scale = estimated.scale
                   ELSE /\ out.source = "provider"
                        /\ out.segs = in.provider.words

\* Witness of C17: the provider was called for a language outside the
\* regional set, returned two words, and the estimator's segments were used.
C17_Witness ==
    /\ timing.phase = "done"
    /\ timing.in.language.base = "en"
    /\ Len(timing.in.provider.words) = 2
    /\ timing.out.provider_called
    /\ timing.out.source = "estimator"
    /\ Len(timing.out.segs) = MaxTokens

(***************************************************************************)
(*               Claims on missing narration and on the seed               *)
(***************************************************************************)

\* C15 (as claimed): a render of a project in which a scene's narration text
\* is empty does no transcoder work (no clip, stitch or composite) and does
\* not succeed.
C15_EmptyNarrationFailsBeforeClips ==
    \A j \in JobIds :
        (HasProject(j) /\ ProjectOf(j).empty_text) =>
            /\ NoTranscoderWork(j)
            /\ jobs[j].status # "succeeded"

\* C16 (as claimed): two renders of the same project (same scenes, assets
\* and seed) chose the same zoom direction for every scene both have built.
C16_ZoomDeterminedBySeed ==
    \A i, j \in JobIds :
        jobs[i].project_id = jobs[j].project_id =>
            \A k \in 1..Min(Len(ctx[i].zooms), Len(ctx[j].zooms)) :
                ctx[i].zooms[k] = ctx[j].zooms[k]

(***************************************************************************)
(*                    Claims on the order of the stages                    *)
(***************************************************************************)

\* The stage that may follow stage a in a render of a project with n scenes,
\* with (bgm) or without a background track, k clips being built after the
\* step; any stage may also end the render by failing ("done").
StageFollows(a, b, bgm, n, k) ==
    \/ b = "done"
    \/ a = "prepare" /\ b = "voice"
    \/ a = "voice" /\ b = "build"
    \/ a = "build" /\ b = "build" /\ k < n
    \/ a = "build" /\ b = "stitch" /\ k = n
    \/ a = "stitch" /\ b = "template"
    \/ a = "template" /\ b = "mix" /\ bgm
    \/ a = "template" /\ b = "upload_video" /\ ~bgm
    \/ a = "mix" /\ b \in {"mix_retry", "mix_remove"}
    \/ a = "mix_retry" /\ b = "mix_remove"
    \/ a = "mix_remove" /\ b = "mix_rename"
    \/ a = "mix_rename" /\ b = "upload_video"
    \/ a = "upload_video" /\ b = "upload_subtitle"
    \/ a = "upload_subtitle" /\ b = "succeed"
    \/ a = "succeed" /\ b = "pointers"

\* C18: every step of a render with a template t0..t7 goes from a stage to
\* the next in the order preparation, voice, scene clips one by one (one per
\* scene), stitcher, template compositor, mixer, uploads and result; the
\* stitcher starts with all clips built, the compositor with the stitched
\* track, and the mixer runs exactly when a background track is configured.
C18_StagesInOrder ==
    [][\A j \in JobIds :
          (/\ HasProject(j)
           /\ ProjectOf(j).template_id \in SUPPORTED_TEMPLATES \ {"t9"}
           /\ pc[j] \notin {"run", "load"}
           /\ pc'[j] # pc[j]) =>
              LET proj == ProjectOf(j)
                  bgm == proj.background_music_path # ""
                  c == ctx'[j]
              IN  /\ StageFollows(pc[j], pc'[j], bgm, proj.scenes, c.nclips)
                  /\ Len(c.zooms) = c.nclips
                  /\ pc'[j] = "stitch" => c.image_files = proj.scenes
                                          /\ c.audio_files = proj.scenes
                  /\ pc'[j] = "template" => c.stitched /\ c.ai_video.clips = proj.scenes
                  /\ pc'[j] = "mix" => c.final.kind \in {"stitched", "composite"}
                  /\ pc'[j] = "upload_video" =>
                         /\ c.final.kind \in {"stitched", "composite"}
                         /\ c.final.clips = proj.scenes
                         /\ bgm <=> c.final.gain # -1]_vars

\* Witness of C18: a t1 render with a background track and all its scenes
\* went through every stage and is about to return its result.
C18_Witness ==
    \E j \in JobIds :
        /\ pc[j] = "succeed"
        /\ ctx[j].template_id = "t1"
        /\ ctx[j].nclips = MaxProjScenes
        /\ ctx[j].final.kind = "composite"
        /\ ctx[j].final.gain = DEFAULT_VOLUME
        /\ ctx[j].uploads = {"final_video", "subtitle.ass"}

\* C19: a t9 render never prepares images, builds a scene clip or stitches;
\* past its template stage it holds the captioned secondary track, made by
\* two ffmpeg runs (narration concat, caption burn-in), and the captions
\* document, and both are uploaded before the result is returned.
C19_T9SkipsClipsAndStitching ==
    \A j \in JobIds :
        (HasProject(j) /\ ProjectOf(j).template_id = "t9") =>
            /\ pc[j] \notin {"build", "stitch"}
            /\ ctx[j].image_files = 0
            /\ ctx[j].nclips = 0
            /\ ctx[j].zooms = <<>>
            /\ ~ctx[j].stitched
            /\ ctx[j].ai_video = NoFile
            /\ pc[j] \in {"mix", "upload_video", "upload_subtitle", "succeed", "pointers"} =>
                   /\ ctx[j].final.kind = "captioned"
                   /\ ctx[j].final.template = "t9"
                   /\ ctx[j].subtitle
                   /\ ctx[j].ffmpeg >= 2
            /\ pc[j] \in {"succeed", "pointers"} =>
                   ctx[j].uploads = {"final_video", "subtitle.ass"}

\* Witness of C19: a t9 render of MaxProjScenes scenes has uploaded its
\* captioned video and its captions document.
C19_Witness ==
    \E j \in JobIds :
        /\ pc[j] = "succeed"
        /\ ctx[j].template_id = "t9"
        /\ ctx[j].audio_files = MaxProjScenes
        /\ ctx[j].final.kind = "captioned"
        /\ ctx[j].uploads = {"final_video", "subtitle.ass"}

(***************************************************************************)
(*                    Claims on the Timeline Stitcher                      *)
(***************************************************************************)

\* C20: with n >= 2 clips, the crossfade joining clip i+1 (i = 1..n-1) is
\* placed at the sum of the durations of the first i scenes minus the
\* transition duration, every clip's audio is trimmed to its scene's
\* duration, and the concatenated audio lasts the sum of the durations.
C20_CrossfadeOffsetsAndAudio ==
    (stitcher.phase = "done" /\ Len(stitcher.scene_durations) >= 2) =>
        LET d == stitcher.scene_durations
            n == Len(d)
            out == stitcher.out
        IN  /\ Len(out.offsets) = n - 1
            /\ \A i \in 1..(n - 1) :
                   out.offsets[i] = SumSeq(SubSeq(d, 1, i)) - TRANSITION_DURATION
            /\ Len(out.trims) = n
            /\ \A i \in 1..n : out.trims[i] = d[i]
            /\ out.audio = SumSeq(d)

\* Witness of C20: three clips of different durations were stitched.
C20_Witness ==
    /\ stitcher.phase = "done"
    /\ stitcher.scene_durations = <<250, 50, 400>>
    /\ stitcher.out.offsets = <<150, 200>>
    /\ stitcher.out.audio = 700

(***************************************************************************)
(*                  Claims on the captions artifact                        *)
(***************************************************************************)

\* C21: a render whose stitcher has completed holds a captions document,
\* whatever its template, and a render that succeeded has uploaded it and
\* returned its URL.
C21_StitcherAlwaysWritesCaptions ==
    \A j \in JobIds :
        /\ ctx[j].stitched => ctx[j].subtitle
        /\ jobs[j].status = "succeeded" =>
               /\ ctx[j].subtitle
               /\ "subtitle.ass" \in ctx[j].uploads
               /\ jobs[j].result.subtitle_url = j

\* Witness of C21: a t0 render (no captions burnt in) of MaxProjScenes scenes
\* succeeded, with its captions document uploaded.
C21_Witness ==
    \E j \in JobIds :
        /\ jobs[j].status = "succeeded"
        /\ ctx[j].template_id = "t0"
        /\ ctx[j].stitched
        /\ ctx[j].ai_video.clips = MaxProjScenes
        /\ ctx[j].subtitle
        /\ "subtitle.ass" \in ctx[j].uploads

(***************************************************************************)
(*                 Claims on the word events of a scene                    *)
(***************************************************************************)

\* The words of a wrapped text, line after line.
RECURSIVE Flatten(_)
Flatten(lines) == IF lines = <<>> THEN <<>> ELSE Head(lines) \o Flatten(Tail(lines))

\* The positions, in the events, of the word events of scene si.
WordEventsOf(events, si) ==
    {n \in 1..Len(events) : events[n].scene = si /\ events[n].kind = "word"}

\* C22 (as claimed): for a scene with n >= 1 word segments there are exactly
\* n word events; the i-th starts at offset + start of word i and ends at
\* offset + start of word i+1, the last at offset + the scene's end (the later
\* of the scene's duration and the last word's end); its text is the scene's
\* words in order with exactly the i-th highlighted.
C22_OneEventPerWord ==
    captions.phase = "done" =>
        \A si \in 1..Len(captions.in.all_word_segments) :
            LET segs == captions.in.all_word_segments[si]
                n == Len(segs)
                offset == PrefixDuration(captions.in.scene_durations, si - 1)
                scene_end == Max(segs[n].end, SceneDur(captions.in.scene_durations, si))
                evs == WordEventsOf(captions.events, si)
            IN  n >= 1 =>
                    /\ Cardinality(evs) = n
                    /\ \A k \in evs :
                           LET e == captions.events[k]
                               i == e.index
                           IN  /\ i \in 1..n
                               /\ AssTimeToCs(e.start) = offset + segs[i].start
                               /\ AssTimeToCs(e.end) = offset +
                                      (IF i < n THEN segs[i + 1].start ELSE scene_end)
                               /\ Flatten(e.text) =
                                      [j \in 1..n |-> [w |-> segs[j].word, hi |-> j = i]]
                    /\ \A i \in 1..n : \E k \in evs : captions.events[k].index = i

\* The segments of every scene are ordered and lie within the scene's duration.
SegmentsWithinScenes(in) ==
    \A si \in 1..Len(in.all_word_segments) :
        LET segs == in.all_word_segments[si]
        IN  /\ OrderedNonOverlapping(segs)
            /\ \A i \in 1..Len(segs) :
                   /\ 0 <= segs[i].start
                   /\ segs[i].end <= SceneDur(in.scene_durations, si)

\* C27 (as claimed): when the segments of every scene are ordered and lie
\* within the scene's duration, the events start in non-decreasing order, an
\* event ends before the next starts, and every event of scene k lies within
\* [offset_k, offset_k + duration_k].
C27_EventsOrderedWithinTheirScene ==
    (captions.phase = "done" /\ SegmentsWithinScenes(captions.in)) =>
        LET ev == captions.events
        IN  /\ \A n \in 1..(Len(ev) - 1) :
                   /\ AssTimeToCs(ev[n].start) <= AssTimeToCs(ev[n + 1].start)
                   /\ AssTimeToCs(ev[n].end) <= AssTimeToCs(ev[n + 1].start)
            /\ \A n \in 1..Len(ev) :
                   LET k == ev[n].scene
                       offset == PrefixDuration(captions.in.scene_durations, k - 1)
                       dur == SceneDur(captions.in.scene_durations, k)
                   IN  /\ offset <= AssTimeToCs(ev[n].start)
                       /\ AssTimeToCs(ev[n].start) <= AssTimeToCs(ev[n].end)
                       /\ AssTimeToCs(ev[n].end) <= offset + dur

\* C28 (as claimed): every crossfade offset the stitcher computes for two or
\* more clips is non-negative.
C28_CrossfadeOffsetsNonNegative ==
    (stitcher.phase = "done" /\ Len(stitcher.scene_durations) >= 2) =>
        \A i \in 1..Len(stitcher.out.offsets) : stitcher.out.offsets[i] >= 0

\* C29 (as claimed): a gain g of the project with 0 <= g <= 2 is the gain
\* the mixer applies to the background track.
C29_GainInRangeAppliedExactly ==
    \A j \in JobIds :
        (/\ HasProject(j)
         /\ ProjectOf(j).background_music_volume.num
         /\ ProjectOf(j).background_music_volume.v \in 0..200
         /\ ctx[j].final.gain # -1) =>
            ctx[j].final.gain = ProjectOf(j).background_music_volume.v

(***************************************************************************)
(*                 Claims on what a client can observe                     *)
(***************************************************************************)

\* Job j is the job created last for its project.
LastCreated(j) ==
    \A i \in JobIds : jobs[i].project_id = jobs[j].project_id => i <= j

\* C24 (as claimed): when the last job of a project is seen succeeded, the
\* project's last_video_url and last_subtitle_url are set, so that
\* get_last_video_url / get_last_subtitle_url do not raise video_not_ready /
\* subtitle_not_ready.
C24_SucceededImpliesPointersSet ==
    \A j \in JobIds :
        (HasProject(j) /\ LastCreated(j) /\ jobs[j].status = "succeeded") =>
            /\ ProjectOf(j).last_video_url # 0
            /\ ProjectOf(j).last_subtitle_url # 0

\* C25 (as claimed): the status query of a project returns the job created
\* last for it, also when several were created within the same second.
C25_StatusReturnsLastCreatedJob ==
    \A p \in ProjectIds :
        LET mine == {k \in 1..Len(jobstore.jobs) : jobstore.jobs[k].project_id = p}
        IN  mine # {} =>
                get_latest_job_for_project(jobstore.jobs, p)
                    = CHOOSE k \in mine : \A other \in mine : other <= k

StatusRank(status) ==
    IF status = "queued" THEN 0 ELSE IF status = "running" THEN 1 ELSE 2

\* C23 (as claimed): a job's status only moves forward along queued ->
\* running -> (succeeded | failed): no update changes the status of a
\* succeeded or failed job, progress never decreases, and it is 100 in
\* every terminal state.
C23_StatusOnlyMovesForward ==
    [][\A j \in JobIds :
          /\ StatusRank(jobs'[j].status) >= StatusRank(jobs[j].status)
          /\ jobs[j].status \in {"succeeded", "failed"} =>
                 jobs'[j].status = jobs[j].status
          /\ jobs'[j].progress >= jobs[j].progress
          /\ jobs'[j].status \in {"succeeded", "failed"} =>
                 jobs'[j].progress = 100]_vars

\* C26 (as claimed): every job created by start_generate_video eventually
\* is succeeded or failed, its thread being scheduled fairly and every
\* external call returning or raising.
C26_EveryJobEventuallyTerminal ==
    \A j \in 1..MaxJobs :
        [](j \in JobIds =>
               <>(j \in JobIds /\ jobs[j].status \in {"succeeded", "failed"}))

\* The global offset the caption file applies to event e of the render.
CaptionOffsetOf(e) ==
    AssTimeToCs(e.start)
        - (IF e.kind = "word" THEN timeline.narrations[e.scene].segs[e.index].start
           ELSE 0)

\* C30: the caption timeline and the narration audio timeline agree: on the
\* stitched path and on the t9 path, the global caption offset of every
\* scene is the time at which the scene's narration starts in the final
\* audio track, and both are the sum of the durations of the scenes before.
C30_CaptionOffsetIsNarrationStart ==
    timeline.phase = "done" =>
        \A n \in 1..Len(timeline.events) :
            LET e == timeline.events[n]
                scene_durations == [i \in 1..Len(timeline.narrations) |->
                                       timeline.narrations[i].duration]
            IN  /\ CaptionOffsetOf(e) = timeline.starts[e.scene]
                /\ timeline.starts[e.scene]
                       = PrefixDuration(scene_durations, e.scene - 1)

\* Witness of C30: a stitched render of three scenes whose third scene has a
\* caption event and follows a scene without word segments.
C30_Witness ==
    /\ timeline.phase = "done"
    /\ timeline.path = "stitched"
    /\ Len(timeline.narrations) = 3
    /\ timeline.narrations[1].duration = 250
    /\ timeline.narrations[2].segs = <<>>
    /\ timeline.narrations[2].duration = 50
    /\ \E n \in 1..Len(timeline.events) :
           /\ timeline.events[n].scene = 3
           /\ CaptionOffsetOf(timeline.events[n]) = 300

=============================================================================
